---- MODULE Spec2Model ----
(***************************************************************************)
(* Model of sunbird's transform pipeline (sunbird/data/transforms.py), its *)
(* coordinate filter engine (sunbird/read_utils/data_utils.py) and the     *)
(* summary Bundle (sunbird/summaries/bundle.py).                           *)
(*                                                                         *)
(* Numbers are exact rationals n/d plus the non-finite floats numpy        *)
(* produces (nan, +inf, -inf).  A finite real that has no exact rational   *)
(* form (log10 3, sqrt 2), or whose numerator or denominator outgrows      *)
(* MaxTracked, is the value "irr": a number the model does not track.  No  *)
(* formula below draws a conclusion from an "irr".                         *)
(***************************************************************************)
EXTENDS Integers, Sequences, FiniteSets, TLC

\* ------------------------------------------------------------------ bounds
\* Longest pipeline (number of members of a Transforms object).
MaxMembers == 2
\* Largest |k| for which 10**k and log10(10**k) are computed exactly.
MaxExp == 3
\* Largest numerator or denominator of a rational that is tracked exactly.
MaxTracked == 30000

\* ------------------------------------------------------------- arithmetic
RECURSIVE Gcd(_, _)
Gcd(a, b) == IF b = 0 THEN a ELSE Gcd(b, a % b)

Abs(i) == IF i < 0 THEN -i ELSE i

\* The rational n/d in lowest terms, d > 0.
Q(n, d) ==
    LET g == Gcd(Abs(n), Abs(d))
        s == IF d < 0 THEN -1 ELSE 1
    IN  [k |-> "q", n |-> (s * n) \div g, d |-> (s * d) \div g]

I(n) == [k |-> "q", n |-> n, d |-> 1]
NaN == [k |-> "nan", n |-> 0, d |-> 1]
PInf == [k |-> "inf", n |-> 1, d |-> 1]
NInf == [k |-> "inf", n |-> -1, d |-> 1]
Irr == [k |-> "irr", n |-> 0, d |-> 1]

\* The result n/d of an operation: tracked while it fits MaxTracked.
Num(n, d) ==
    CHOOSE r \in { IF Abs(q.n) > MaxTracked \/ q.d > MaxTracked THEN Irr ELSE q :
                    q \in {Q(n, d)} } : TRUE

IsQ(x) == x.k = "q"
IsInf(x) == x.k = "inf"
\* Sign of a rational or an infinity: -1, 0, 1.
Sgn(x) == IF x.n < 0 THEN -1 ELSE IF x.n > 0 THEN 1 ELSE 0
InfOf(s) == IF s < 0 THEN NInf ELSE PInf

Neg(x) == [x EXCEPT !.n = -x.n]

\* IEEE addition: nan absorbs, inf + -inf = nan.
Add(x, y) ==
    IF x.k = "nan" \/ y.k = "nan" THEN NaN
    ELSE IF x.k = "irr" \/ y.k = "irr" THEN Irr
    ELSE IF IsInf(x) /\ IsInf(y) THEN (IF x.n = y.n THEN x ELSE NaN)
    ELSE IF IsInf(x) THEN x
    ELSE IF IsInf(y) THEN y
    ELSE Num(x.n * y.d + y.n * x.d, x.d * y.d)

Sub(x, y) == Add(x, Neg(y))

\* IEEE multiplication: 0 * inf = nan.
Mul(x, y) ==
    IF x.k = "nan" \/ y.k = "nan" THEN NaN
    ELSE IF x.k = "irr" \/ y.k = "irr" THEN Irr
    ELSE IF IsInf(x) \/ IsInf(y)
         THEN (IF Sgn(x) * Sgn(y) = 0 THEN NaN ELSE InfOf(Sgn(x) * Sgn(y)))
    ELSE Num(x.n * y.n, x.d * y.d)

\* numpy true division: x/0 is +-inf, 0/0 and inf/inf are nan (no exception).
Div(x, y) ==
    IF x.k = "nan" \/ y.k = "nan" THEN NaN
    ELSE IF x.k = "irr" \/ y.k = "irr" THEN Irr
    ELSE IF IsInf(x) /\ IsInf(y) THEN NaN
    ELSE IF IsInf(x) THEN InfOf(Sgn(x) * (IF Sgn(y) < 0 THEN -1 ELSE 1))
    ELSE IF IsInf(y) THEN I(0)
    ELSE IF y.n = 0 THEN (IF x.n = 0 THEN NaN ELSE InfOf(Sgn(x)))
    ELSE Num(x.n * y.d, x.d * y.n)

\* x < y on rationals and infinities.
Less(x, y) ==
    IF IsInf(x) /\ IsInf(y) THEN x.n < y.n
    ELSE IF IsInf(x) THEN x.n < 0
    ELSE IF IsInf(y) THEN y.n > 0
    ELSE x.n * y.d < y.n * x.d

RECURSIVE Pow10Int(_)
Pow10Int(e) == IF e = 0 THEN 1 ELSE 10 * Pow10Int(e - 1)

\* The exponents e in 0..MaxExp with 10**e = n (at most one).
ExpOf(n) == {e \in 0..MaxExp : Pow10Int(e) = n}

\* np.log10: nan below 0, -inf at 0, exact on the powers of ten.
Log10(x) ==
    IF x.k = "nan" \/ x.k = "irr" THEN x
    ELSE IF IsInf(x) THEN (IF x.n > 0 THEN PInf ELSE NaN)
    ELSE IF x.n < 0 THEN NaN
    ELSE IF x.n = 0 THEN NInf
    ELSE IF x.d = 1 /\ ExpOf(x.n) # {} THEN I(CHOOSE e \in ExpOf(x.n) : TRUE)
    ELSE IF x.n = 1 /\ ExpOf(x.d) # {} THEN I(-(CHOOSE e \in ExpOf(x.d) : TRUE))
    ELSE Irr

\* 10 ** x: exact on the integers of -MaxExp..MaxExp.
Pow10(x) ==
    IF x.k = "nan" \/ x.k = "irr" THEN x
    ELSE IF IsInf(x) THEN (IF x.n > 0 THEN PInf ELSE I(0))
    ELSE IF x.d = 1 /\ Abs(x.n) <= MaxExp
         THEN (IF x.n >= 0 THEN I(Pow10Int(x.n)) ELSE Q(1, Pow10Int(-x.n)))
    ELSE Irr

\* The integer square root of n >= 0 by bisection on lo..hi (lo*lo <= n).
RECURSIVE SqrtSearch(_, _, _)
SqrtSearch(n, lo, hi) ==
    IF lo >= hi THEN lo
    ELSE LET mid == (lo + hi + 1) \div 2
         IN  IF mid * mid <= n THEN SqrtSearch(n, mid, hi)
             ELSE SqrtSearch(n, lo, mid - 1)

ISqrt(n) == SqrtSearch(n, 0, IF n < 46340 THEN n ELSE 46340)
IsSquare(n) == ISqrt(n) * ISqrt(n) = n

\* x ** 0.5 as numpy computes it: nan below 0, exact on squares of rationals.
PowHalf(x) ==
    IF x.k = "nan" \/ x.k = "irr" THEN x
    ELSE IF IsInf(x) THEN PInf
    ELSE IF x.n < 0 THEN NaN
    ELSE IF IsSquare(x.n) /\ IsSquare(x.d) THEN Q(ISqrt(x.n), ISqrt(x.d))
    ELSE Irr

\* np.sqrt, used by the standard deviation.
Sqrt(x) == IF IsInf(x) /\ x.n < 0 THEN NaN ELSE PowHalf(x)

\* x ** 2
Square(x) == Mul(x, x)

\* ------------------------------------------------------------------ arrays
\* An xr.DataArray of rank 2: its first axis is named axis0 and has the
\* labels 0 and 1, its second axis is "s" with the labels 1 and 2.  v is the
\* flattened (row-major) tuple of its four cells.
Cells == 1..4
\* The label of cell c on the first axis and on "s".
MOf(c) == (c - 1) \div 2
SOf(c) == ((c - 1) % 2) + 1
\* The tuple of the values of f over the cells.
Tup(f) == <<f[1], f[2], f[3], f[4]>>
Arr(axis0, f) == [axis0 |-> axis0, v |-> f]
DimsOf(a) == {a.axis0, "s"}
ConstF(x) == <<x, x, x, x>>

\* The optional `dimensions` argument: None, or a list of dimension names.
NoDims == [none |-> TRUE, names |-> {}]
OverDims(names) == [none |-> FALSE, names |-> names]

\* The cells reduced together with cell c when reducing over `dims`
\* (None reduces over everything).
Group(dims, a, c) ==
    IF dims.none THEN Cells
    ELSE {e \in Cells : /\ (a.axis0 \notin dims.names => MOf(e) = MOf(c))
                        /\ ("s" \notin dims.names => SOf(e) = SOf(c))}

RECURSIVE SumOver(_, _)
SumOver(f, S) ==
    IF S = {} THEN I(0)
    ELSE LET c == CHOOSE e \in S : TRUE IN Add(f[c], SumOver(f, S \ {c}))

\* xarray reductions skip nan cells (skipna) and give nan when none is left.
Kept(f, S) == {c \in S : f[c].k # "nan"}

MinOver(f, S) ==
    LET K == Kept(f, S)
    IN  IF K = {} THEN NaN
        ELSE IF \E c \in K : f[c].k = "irr" THEN Irr
        ELSE f[CHOOSE c \in K : \A e \in K : ~Less(f[e], f[c])]

MaxOver(f, S) ==
    LET K == Kept(f, S)
    IN  IF K = {} THEN NaN
        ELSE IF \E c \in K : f[c].k = "irr" THEN Irr
        ELSE f[CHOOSE c \in K : \A e \in K : ~Less(f[c], f[e])]

MeanOver(f, S) ==
    LET K == Kept(f, S)
    IN  IF K = {} THEN NaN ELSE Div(SumOver(f, K), I(Cardinality(K)))

\* Population standard deviation (ddof = 0).
StdOver(f, S) ==
    LET K == Kept(f, S)
        mu == MeanOver(f, S)
        dev == Tup([c \in Cells |-> Square(Sub(f[c], mu))])
    IN  IF K = {} THEN NaN
        ELSE Sqrt(Div(SumOver(dev, K), I(Cardinality(K))))

\* ----------------------------------------------------------------- members
\* A parameter attribute of a member: None (set = FALSE) or a value.  A fitted
\* parameter is kept broadcast over the array's cells (constant along the
\* reduced dimensions).
NoneP == [set |-> FALSE, v |-> ConstF(I(0))]
SomeP(f) == [set |-> TRUE, v |-> f]

\* LogSqrt.__init__'s defaults: min_monopole = 0.011, min_quadrupole = -30.0.
DefMinMonopole == Q(11, 1000)
DefMinQuadrupole == I(-30)

\* One object of the pipeline.  p1, p2 are training_min, training_max
\* (Normalize) or training_mean, training_std (Standarize); c1, c2 are
\* min_monopole, min_quadrupole (LogSqrt).  Attributes a kind does not have
\* keep the fillers below.
Member(kind, p1, p2, dims, c1, c2) ==
    [kind |-> kind, p1 |-> p1, p2 |-> p2, dims |-> dims, c1 |-> c1, c2 |-> c2]

Normalize(training_min, training_max, dimensions) ==
    Member("Normalize", training_min, training_max, dimensions, I(0), I(0))

Standarize(training_mean, training_std, dimensions) ==
    Member("Standarize", training_mean, training_std, dimensions, I(0), I(0))

LogSqrt(min_monopole, min_quadrupole) ==
    Member("LogSqrt", NoneP, NoneP, NoDims, min_monopole, min_quadrupole)

\* abc.ABC(): an object with no transform, inverse_transform or fit.
AbcObject == Member("ABC", NoneP, NoneP, NoDims, I(0), I(0))

\* hasattr(transform, 'fit')
HasFit(m) == m.kind \in {"Normalize", "Standarize"}

\* What a member method gives back: an exception (err # "") or the returned
\* array; inplace says the returned array is the argument object itself,
\* rewritten.
NullArr == Arr("", ConstF(I(0)))
Raised(e) == [err |-> e, out |-> NullArr, inplace |-> FALSE]
Returned(a, inplace) == [err |-> "", out |-> a, inplace |-> inplace]

\* Normalize.fit / Standarize.fit: reducing over a dimension the array does
\* not have is a ValueError in xarray; the parameters are then not assigned.
FitFails(m, a) == ~m.dims.none /\ ~(m.dims.names \subseteq DimsOf(a))

NormalizeFit(m, a) ==
    [m EXCEPT !.p1 = SomeP(Tup([c \in Cells |-> MinOver(a.v, Group(m.dims, a, c))])),
              !.p2 = SomeP(Tup([c \in Cells |-> MaxOver(a.v, Group(m.dims, a, c))]))]

StandarizeFit(m, a) ==
    [m EXCEPT !.p1 = SomeP(Tup([c \in Cells |-> MeanOver(a.v, Group(m.dims, a, c))])),
              !.p2 = SomeP(Tup([c \in Cells |-> StdOver(a.v, Group(m.dims, a, c))]))]

MemberFit(m, a) ==
    IF m.kind = "Normalize" THEN NormalizeFit(m, a) ELSE StandarizeFit(m, a)

\* Normalize.transform with a None parameter read as 0 instead of raising.
NormalizeTransformNoneAsZero(m, a) ==
    Returned(Arr(a.axis0,
        Tup([c \in Cells |-> Div(Sub(a.v[c], m.p1.v[c]),
                                  Sub(m.p2.v[c], m.p1.v[c]))])), FALSE)

\* Arithmetic between an array and None raises TypeError.
NormalizeTransform(m, a) ==
    IF ~m.p1.set \/ ~m.p2.set THEN Raised("TypeError")
    ELSE Returned(Arr(a.axis0,
             Tup([c \in Cells |-> Div(Sub(a.v[c], m.p1.v[c]),
                                  Sub(m.p2.v[c], m.p1.v[c]))])), FALSE)

NormalizeInverse(m, a) ==
    IF ~m.p1.set \/ ~m.p2.set THEN Raised("TypeError")
    ELSE Returned(Arr(a.axis0,
             Tup([c \in Cells |-> Add(Mul(a.v[c], Sub(m.p2.v[c], m.p1.v[c])),
                                  m.p1.v[c])])), FALSE)

StandarizeTransform(m, a) ==
    IF ~m.p1.set \/ ~m.p2.set THEN Raised("TypeError")
    ELSE Returned(Arr(a.axis0,
             Tup([c \in Cells |-> Div(Sub(a.v[c], m.p1.v[c]), m.p2.v[c])])), FALSE)

StandarizeInverse(m, a) ==
    IF ~m.p1.set \/ ~m.p2.set THEN Raised("TypeError")
    ELSE Returned(Arr(a.axis0,
             Tup([c \in Cells |-> Add(Mul(a.v[c], m.p2.v[c]), m.p1.v[c])])), FALSE)

\* summary.sel(multipoles=0) raises KeyError on an array with no such axis;
\* otherwise both rows are rewritten in the argument, which is returned.
LogSqrtTransform(m, a) ==
    IF a.axis0 # "multipoles" THEN Raised("KeyError")
    ELSE Returned(Arr(a.axis0,
             Tup([c \in Cells |-> IF MOf(c) = 0 THEN Log10(Sub(a.v[c], m.c1))
                              ELSE PowHalf(Sub(a.v[c], m.c2))])), TRUE)

LogSqrtInverse(m, a) ==
    IF a.axis0 # "multipoles" THEN Raised("KeyError")
    ELSE Returned(Arr(a.axis0,
             Tup([c \in Cells |-> IF MOf(c) = 0 THEN Pow10(Add(a.v[c], m.c1))
                              ELSE Square(Add(a.v[c], m.c2))])), TRUE)

MemberTransform(m, a) ==
    CASE m.kind = "Normalize" -> NormalizeTransform(m, a)
      [] m.kind = "Standarize" -> StandarizeTransform(m, a)
      [] m.kind = "LogSqrt" -> LogSqrtTransform(m, a)
      [] OTHER -> Raised("AttributeError")

MemberInverse(m, a) ==
    CASE m.kind = "Normalize" -> NormalizeInverse(m, a)
      [] m.kind = "Standarize" -> StandarizeInverse(m, a)
      [] m.kind = "LogSqrt" -> LogSqrtInverse(m, a)
      [] OTHER -> Raised("AttributeError")

\* ---------------------------------------------------------------- pipeline
\* The outcome of a Transforms method: the members afterwards, the exception
\* raised (err # "") or the returned array, and arg, the caller's array
\* object as the call leaves it.
Outcome(ms, err, out, arg) == [ms |-> ms, err |-> err, out |-> out, arg |-> arg]

\* A member's result r with what it makes of the caller's object.  (The loops
\* below bind each step in a one-element set, so that it is computed once.)
Step(r, own, arg) == [r |-> r, own |-> own /\ r.inplace,
                      arg |-> IF own /\ r.inplace THEN r.out ELSE arg]

\* The loop of Transforms.fit_transform from member i on.  cur is the array
\* bound to `summary`; own says it is still the caller's object.  A member
\* with a fit method is fitted on cur, then applied to cur; any other member
\* is only applied.
RECURSIVE FitLoop(_, _, _, _, _)
FitLoop(ms, i, cur, own, arg) ==
    IF i > Len(ms) THEN Outcome(ms, "", cur, arg)
    ELSE IF HasFit(ms[i]) /\ FitFails(ms[i], cur)
         THEN Outcome(ms, "ValueError", NullArr, arg)
    ELSE CHOOSE o \in
           { CHOOSE o2 \in
               { IF st.r.err # "" THEN Outcome(ms2, st.r.err, NullArr, arg)
                 ELSE FitLoop(ms2, i + 1, st.r.out, st.own, st.arg) :
                   st \in {Step(MemberTransform(ms2[i], cur), own, arg)} } : TRUE :
               ms2 \in {[ms EXCEPT ![i] = IF HasFit(ms[i]) THEN MemberFit(ms[i], cur)
                                          ELSE ms[i]]} } : TRUE

\* fit_transform going through the members last to first.
TransformsFitTransformReversed(ms, a) ==
    CHOOSE o \in
      { [r EXCEPT !.ms = [i \in 1..Len(ms) |-> r.ms[Len(ms) + 1 - i]]] :
          r \in {FitLoop([i \in 1..Len(ms) |-> ms[Len(ms) + 1 - i]], 1, a, TRUE, a)} } : TRUE

TransformsFitTransform(ms, a) == FitLoop(ms, 1, a, TRUE, a)

\* The loop of Transforms.transform from member i on.
RECURSIVE TransformLoop(_, _, _, _, _)
TransformLoop(ms, i, cur, own, arg) ==
    IF i > Len(ms) THEN Outcome(ms, "", cur, arg)
    ELSE CHOOSE o \in
           { IF st.r.err # "" THEN Outcome(ms, st.r.err, NullArr, arg)
             ELSE TransformLoop(ms, i + 1, st.r.out, st.own, st.arg) :
               st \in {Step(MemberTransform(ms[i], cur), own, arg)} } : TRUE

\* A transform that hands the caller's own array to the members.
TransformsTransformNoCopy(ms, a) == TransformLoop(ms, 1, a, TRUE, a)

\* A transform that fits the members with a fit method before applying them.
TransformsTransformRefitting(ms, a) == FitLoop(ms, 1, a, FALSE, a)

\* Transforms.transform starts from summary.copy(): not the caller's object.
TransformsTransform(ms, a) == TransformLoop(ms, 1, a, FALSE, a)

\* The loop of Transforms.inverse_transform over self.transforms[::-1], from
\* member i down.
RECURSIVE InverseLoop(_, _, _, _, _)
InverseLoop(ms, i, cur, own, arg) ==
    IF i < 1 THEN Outcome(ms, "", cur, arg)
    ELSE CHOOSE o \in
           { IF st.r.err # "" THEN Outcome(ms, st.r.err, NullArr, arg)
             ELSE InverseLoop(ms, i - 1, st.r.out, st.own, st.arg) :
               st \in {Step(MemberInverse(ms[i], cur), own, arg)} } : TRUE

\* inverse_transform going through the members first to last.
TransformsInverseTransformForward(ms, a) ==
    CHOOSE o \in
      { [r EXCEPT !.ms = ms] :
          r \in {InverseLoop([i \in 1..Len(ms) |-> ms[Len(ms) + 1 - i]],
                             Len(ms), a, TRUE, a)} } : TRUE

TransformsInverseTransform(ms, a) == InverseLoop(ms, Len(ms), a, TRUE, a)

\* ------------------------------------------------------------- persistence
\* A value of the pickled dict: the member's __dict__ (has = TRUE) or {}.
NoParams == [has |-> FALSE, p1 |-> NoneP, p2 |-> NoneP, dims |-> NoDims]
get_parameter_dict(m) == [has |-> TRUE, p1 |-> m.p1, p2 |-> m.p2, dims |-> m.dims]

Entry(key, value) == [key |-> key, value |-> value]

\* d[key] = value on a dict kept as its items in insertion order: an existing
\* key keeps its place and takes the new value.
DictSet(d, key, value) ==
    IF \E j \in 1..Len(d) : d[j].key = key
    THEN [j \in 1..Len(d) |-> IF d[j].key = key THEN Entry(key, value) ELSE d[j]]
    ELSE Append(d, Entry(key, value))

\* The param_dict built by Transforms.store_transform_params from member i on.
RECURSIVE StoreLoop(_, _, _)
StoreLoop(ms, i, d) ==
    IF i > Len(ms) THEN d
    ELSE StoreLoop(ms, i + 1,
             DictSet(d, ms[i].kind,
                     IF HasFit(ms[i]) THEN get_parameter_dict(ms[i]) ELSE NoParams))

ParamDict(ms) == StoreLoop(ms, 1, <<>>)

\* The names bound in the module sunbird.data.transforms that the model
\* follows: the three transform classes, the abstract base and the imported
\* abc.ABC.  Any other key is an AttributeError in getattr.
ModuleNames == {"Normalize", "Standarize", "LogSqrt", "BaseTransform", "ABC"}

\* getattr(sys.modules[__name__], key)(**value)
Instantiate(key, value) ==
    CASE key = "Normalize" ->
           [err |-> "", m |-> IF value.has THEN Normalize(value.p1, value.p2, value.dims)
                              ELSE Normalize(NoneP, NoneP, NoDims)]
      [] key = "Standarize" ->
           [err |-> "", m |-> IF value.has THEN Standarize(value.p1, value.p2, value.dims)
                              ELSE Standarize(NoneP, NoneP, NoDims)]
      [] key = "LogSqrt" ->
           [err |-> "", m |-> LogSqrt(DefMinMonopole, DefMinQuadrupole)]
      [] key = "ABC" ->
           IF value.has THEN [err |-> "TypeError", m |-> AbcObject]
           ELSE [err |-> "", m |-> AbcObject]
      [] key = "BaseTransform" -> [err |-> "TypeError", m |-> AbcObject]
      [] OTHER -> [err |-> "AttributeError", m |-> AbcObject]

\* The loop of Transforms.from_file over param_dict.items(), from item i on.
RECURSIVE LoadLoop(_, _, _)
LoadLoop(d, i, ms) ==
    IF i > Len(d) THEN [err |-> "", ms |-> ms]
    ELSE LET r == Instantiate(d[i].key, d[i].value)
         IN  IF r.err # "" THEN [err |-> r.err, ms |-> <<>>]
             ELSE LoadLoop(d, i + 1, Append(ms, r.m))

TransformsFromFile(d) == LoadLoop(d, 1, <<>>)

\* --------------------------------------------------- the pipeline program
VARIABLES
    layout,   \* name of the first axis of the arrays of this run
    P,        \* P.transforms: the members of the caller's Transforms object
    file,     \* the container at the path used for store / from_file
    call,     \* the last call on the API and how it ended
    X,        \* the raw array, dimensions and coords given to convert_to_summary
    req,      \* the select_filters and slice_filters of the last call
    summary,  \* what the last convert_to_summary call returned or raised
    bundle,   \* the Bundle object: its list of summary names
    fwd       \* the last Bundle.forward call: its inputs and how it ended

pipeVars == <<layout, P, file, call>>
filterVars == <<X, req, summary>>
bundleVars == <<bundle, fwd>>
vars == <<layout, P, file, call, X, req, summary, bundle, fwd>>

\* The parts of the state a scenario does not use stay as they are here.
PipeIdle == layout = "" /\ P = <<>> /\ file = <<>> /\ call = <<>>
FilterIdle == X = <<>> /\ req = <<>> /\ summary = <<>>
BundleIdle == bundle = <<>> /\ fwd = <<>>

\* Rows of values the callers' arrays are made of: the row at label 0 (the
\* monopole) and the row at label 1 (the quadrupole), over the two s bins.
MonoRows == {<<I(11), I(2)>>, <<I(-1), I(1)>>}
QuadRows == {<<I(6), I(1)>>, <<I(1), I(5)>>}

RowsArr(axis0, mr, qr) ==
    Arr(axis0, Tup([c \in Cells |-> IF MOf(c) = 0 THEN mr[SOf(c)] ELSE qr[SOf(c)]]))

\* The arrays the callers pass: density-split arrays (first axis "quintiles")
\* come with fewer values than multipole arrays.
Arrays(axis0) ==
    IF axis0 = "multipoles"
    THEN {RowsArr(axis0, mr, qr) : mr \in MonoRows, qr \in QuadRows}
    ELSE {RowsArr(axis0, <<I(11), I(2)>>, qr) : qr \in QuadRows}

\* The members a caller constructs.
Constructed ==
    { Normalize(NoneP, NoneP, OverDims({"multipoles"})),
      Normalize(SomeP(ConstF(I(1))), SomeP(ConstF(I(5))), NoDims),
      Standarize(NoneP, NoneP, OverDims({"s"})),
      LogSqrt(DefMinMonopole, DefMinQuadrupole),
      LogSqrt(I(1), I(1)) }

SeqsUpTo(S, n) == UNION {[1..k -> S] : k \in 0..n}

\* The file at the path: absent, written by store_transform_params (by =
\* "store", snap = the members that were stored) or by another program.
NoFile == [exists |-> FALSE, by |-> "", d |-> <<>>, snap |-> <<>>]
Stored(ms) == [exists |-> TRUE, by |-> "store", d |-> ParamDict(ms), snap |-> ms]

\* Keys a container written by another program may hold.
ForeignKeys == {"LogSqrt", "ABC", "BaseTransform", "Foo"}

NoCall == [op |-> "", arg0 |-> NullArr, arg |-> NullArr, err |-> "",
           out |-> NullArr, q |-> <<>>]
ArrayCall(op, a, r) ==
    [op |-> op, arg0 |-> a, arg |-> r.arg, err |-> r.err, out |-> r.out, q |-> <<>>]

Init ==
    /\ layout \in {"multipoles", "quintiles"}
    /\ P \in SeqsUpTo(Constructed, MaxMembers)
    /\ file = NoFile
    /\ call = NoCall
    /\ FilterIdle /\ BundleIdle

\* P.fit_transform(a, path_to_store): the parameters are stored when a path
\* is given and no member raised.
FitTransform(a, store) ==
    \E r \in {TransformsFitTransform(P, a)} :
        /\ P' = r.ms
        /\ file' = IF store /\ r.err = "" THEN Stored(r.ms) ELSE file
        /\ call' = ArrayCall("fit_transform", a, r)
        /\ UNCHANGED <<layout, filterVars, bundleVars>>

\* P.transform(a)
Transform(a) ==
    \E r \in {TransformsTransform(P, a)} :
        /\ P' = r.ms
        /\ call' = ArrayCall("transform", a, r)
        /\ UNCHANGED <<layout, file, filterVars, bundleVars>>

\* P.inverse_transform(a)
InverseTransform(a) ==
    \E r \in {TransformsInverseTransform(P, a)} :
        /\ P' = r.ms
        /\ call' = ArrayCall("inverse_transform", a, r)
        /\ UNCHANGED <<layout, file, filterVars, bundleVars>>

\* P.store_transform_params(path)
StoreTransformParams ==
    /\ file' = Stored(P)
    /\ call' = [NoCall EXCEPT !.op = "store"]
    /\ UNCHANGED <<layout, P, filterVars, bundleVars>>

\* Another program pickles a dict with one key and the value {}.
ForeignWrite(key) ==
    /\ file' = [exists |-> TRUE, by |-> "foreign",
                d |-> <<Entry(key, NoParams)>>, snap |-> <<>>]
    /\ UNCHANGED <<layout, P, call, filterVars, bundleVars>>

\* Q = Transforms.from_file(path); open() raises when there is no file.
FromFile ==
    \E r \in {IF file.exists THEN TransformsFromFile(file.d)
               ELSE [err |-> "FileNotFoundError", ms |-> <<>>]} :
        /\ call' = [NoCall EXCEPT !.op = "from_file", !.err = r.err, !.q = r.ms]
        /\ UNCHANGED <<layout, P, file, filterVars, bundleVars>>

\* The arrays a caller passes to inverse_transform: its own arrays, or the
\* array the preceding transform / fit_transform returned.
InverseInputs ==
    Arrays(layout) \cup
        (IF call.op \in {"transform", "fit_transform"} /\ call.err = ""
         THEN {call.out} ELSE {})

\* A caller that fits, applies and inverts the pipeline.
Next ==
    \/ \E a \in Arrays(layout) : FitTransform(a, FALSE)
    \/ \E a \in Arrays(layout) : Transform(a)
    \/ \E a \in InverseInputs : InverseTransform(a)

Spec == Init /\ [][Next]_vars

\* A caller that fits the pipeline in its first call, if at all, and from
\* then on applies, inverts and stores it.
NextUse ==
    \/ call.op = "" /\ \E a \in Arrays(layout) : FitTransform(a, FALSE)
    \/ \E a \in Arrays(layout) : Transform(a)
    \/ \E a \in InverseInputs : InverseTransform(a)
    \/ StoreTransformParams

SpecUse == Init /\ [][NextUse]_vars

\* A caller that fits the pipeline with a path to store it at, stores it,
\* and loads pipelines from the path, which other programs write as well.
NextPersist ==
    \/ \E a \in Arrays(layout) : FitTransform(a, TRUE)
    \/ StoreTransformParams
    \/ \E key \in ForeignKeys : ForeignWrite(key)
    \/ FromFile

SpecPersist == Init /\ [][NextPersist]_vars

\* ---------------------------------------------------------- filter engine
\* Number of labels on the "s" axis of the raw arrays.
NLabels == 3

\* The keys a filter dict may hold.  A dict is a function over these names;
\* a key the dict does not hold has the value Absent.
Names == {"multipoles", "s", "quintiles"}

Absent == [t |-> "absent", a |-> 0, b |-> 0, l |-> <<>>]
\* A single label, a list of labels, a (min, max) tuple, slice(min, max).
Scalar(v) == [t |-> "scalar", a |-> v, b |-> 0, l |-> <<>>]
List(vs) == [t |-> "list", a |-> 0, b |-> 0, l |-> vs]
Pair(lo, hi) == [t |-> "pair", a |-> lo, b |-> hi, l |-> <<>>]
Slice(lo, hi) == [t |-> "slice", a |-> lo, b |-> hi, l |-> <<>>]

NoFilters == [n \in Names |-> Absent]
Keys(filters) == {n \in Names : filters[n].t # "absent"}

\* An xr.DataArray: its dimension names in order, the labels of each
\* dimension, the scalar coordinates left by dropped dimensions, and the
\* values by position tuple; or the exception raised instead.
DataArray(data, dims, coords, scalars) ==
    [err |-> "", dims |-> dims, coords |-> coords, scalars |-> scalars, data |-> data]
Failed(e) == [err |-> e, dims |-> <<>>, coords |-> <<>>, scalars |-> <<>>, data |-> <<>>]

Range(q) == {q[i] : i \in 1..Len(q)}
PosIn(L, v) == CHOOSE p \in 1..Len(L) : L[p] = v

\* The position tuples of an array with axis sizes lens.
RECURSIVE IndexSet(_)
IndexSet(lens) ==
    IF lens = <<>> THEN {<<>>}
    ELSE {Append(t, j) : t \in IndexSet(SubSeq(lens, 1, Len(lens) - 1)),
                         j \in 1..lens[Len(lens)]}

Increasing(L) == \A i, j \in 1..Len(L) : i < j => L[i] <= L[j]
Decreasing(L) == \A i, j \in 1..Len(L) : i < j => L[i] >= L[j]

\* A slice bound that leaves the stop label out, as positional slicing does.
SliceBoundStopExcluded(L, v, side) ==
    IF v \in Range(L) THEN PosIn(L, v) - 1
    ELSE IF Increasing(L) THEN Cardinality({i \in 1..Len(L) : L[i] < v})
    ELSE IF Decreasing(L) THEN Cardinality({i \in 1..Len(L) : L[i] > v})
    ELSE -1

\* pandas Index.get_slice_bound on an index of distinct labels: the place of
\* the label when it is there; else its sorted place in a monotonic index;
\* else KeyError (-1).
SliceBound(L, v, side) ==
    IF v \in Range(L) THEN (IF side = "left" THEN PosIn(L, v) - 1 ELSE PosIn(L, v))
    ELSE IF Increasing(L) THEN Cardinality({i \in 1..Len(L) : L[i] < v})
    ELSE IF Decreasing(L) THEN Cardinality({i \in 1..Len(L) : L[i] > v})
    ELSE -1

\* The positions a list indexer keeps, taken in the order of the axis rather
\* than in the order the labels are given (as a boolean mask would).
PositionsInAxisOrder(L, ix) ==
    CASE ix.t = "absent" -> [i \in 1..Len(L) |-> i]
      [] ix.t = "scalar" -> IF ix.a \in Range(L) THEN <<PosIn(L, ix.a)>> ELSE <<-1>>
      [] ix.t \in {"list", "pair"} ->
           LET vs == IF ix.t = "pair" THEN <<ix.a, ix.b>> ELSE ix.l
           IN  IF Range(vs) \subseteq Range(L)
               THEN SelectSeq([i \in 1..Len(L) |-> i], LAMBDA i : L[i] \in Range(vs))
               ELSE <<-1>>
      [] ix.t = "slice" ->
           LET start == SliceBound(L, ix.a, "left")
               stop == SliceBound(L, ix.b, "right")
           IN  IF start < 0 \/ stop < 0 THEN <<-1>>
               ELSE [i \in 1..(IF stop > start THEN stop - start ELSE 0) |-> start + i]

\* The positions (1-based, in order) that one indexer keeps on an axis with
\* labels L; <<-1>> stands for KeyError.
Positions(L, ix) ==
    CASE ix.t = "absent" -> [i \in 1..Len(L) |-> i]
      [] ix.t = "scalar" -> IF ix.a \in Range(L) THEN <<PosIn(L, ix.a)>> ELSE <<-1>>
      [] ix.t \in {"list", "pair"} ->
           LET vs == IF ix.t = "pair" THEN <<ix.a, ix.b>> ELSE ix.l
           IN  IF Range(vs) \subseteq Range(L) THEN [i \in 1..Len(vs) |-> PosIn(L, vs[i])]
               ELSE <<-1>>
      [] ix.t = "slice" ->
           LET start == SliceBound(L, ix.a, "left")
               stop == SliceBound(L, ix.b, "right")
           IN  IF start < 0 \/ stop < 0 THEN <<-1>>
               ELSE [i \in 1..(IF stop > start THEN stop - start ELSE 0) |-> start + i]

\* summary.sel(**indexers): label-based, every dimension on its own.  A key
\* that is not an indexed dimension of the array is a KeyError, as is a label
\* that is not found; a scalar indexer drops its dimension.
Sel(S, indexers) ==
    LET n == Len(S.dims)
        keep == [k \in 1..n |-> Positions(S.coords[S.dims[k]], indexers[S.dims[k]])]
        dropped == {k \in 1..n : indexers[S.dims[k]].t = "scalar"}
        left == SelectSeq([k \in 1..n |-> k], LAMBDA k : k \notin dropped)
        newOf == [k \in 1..n |-> Cardinality({k2 \in 1..k : k2 \notin dropped})]
        dims2 == [j \in 1..Len(left) |-> S.dims[left[j]]]
        coords2 == [d \in Range(dims2) |->
                       LET k == PosIn(S.dims, d)
                       IN  [i \in 1..Len(keep[k]) |-> S.coords[d][keep[k][i]]]]
        scalars2 == [d \in DOMAIN S.scalars \cup {S.dims[k] : k \in dropped} |->
                        IF d \in DOMAIN S.scalars THEN S.scalars[d] ELSE indexers[d].a]
        data2 == [idx \in IndexSet([j \in 1..Len(left) |-> Len(keep[left[j]])]) |->
                     S.data[[k \in 1..n |-> IF k \in dropped THEN keep[k][1]
                                            ELSE keep[k][idx[newOf[k]]]]]]
    IN  IF ~(Keys(indexers) \subseteq Range(S.dims)) THEN Failed("KeyError")
        ELSE IF \E k \in 1..n : keep[k] = <<-1>> THEN Failed("KeyError")
        ELSE DataArray(data2, dims2, coords2, scalars2)

\* The filters passed on as they are, absent dimensions included.
OnDimensionsKeepAll(filters, dimensions) == filters

\* {k: v for k, v in filters.items() if k in dimensions}
OnDimensions(filters, dimensions) ==
    [n \in Names |-> IF n \in Range(dimensions) THEN filters[n] ELSE Absent]

\* for filter, (min, max) in filters.items(): a value that is no sequence
\* raises TypeError, one that has not two items ValueError.
UnpackError(filters) ==
    IF \E n \in Keys(filters) : filters[n].t = "scalar" THEN "TypeError"
    ELSE IF \E n \in Keys(filters) : filters[n].t = "list" /\ Len(filters[n].l) # 2
         THEN "ValueError"
    ELSE ""

transform_filters_to_slices(filters) ==
    [n \in Names |->
        CASE filters[n].t = "pair" -> Slice(filters[n].a, filters[n].b)
          [] filters[n].t = "list" -> Slice(filters[n].l[1], filters[n].l[2])
          [] OTHER -> filters[n]]

\* convert_to_summary slicing the unselected array: the selection is lost
\* whenever there are slice filters.
convert_to_summary_slice_raw(data, dimensions, coords, scalars, select_filters, slice_filters) ==
    LET sf == OnDimensions(select_filters, dimensions)
        lf == OnDimensions(slice_filters, dimensions)
        s0 == DataArray(data, dimensions, coords, scalars)
        s1 == IF Keys(sf) # {} THEN Sel(s0, sf) ELSE s0
    IN  IF s1.err # "" \/ Keys(lf) = {} THEN s1
        ELSE IF UnpackError(lf) # "" THEN Failed(UnpackError(lf))
        ELSE Sel(s0, transform_filters_to_slices(lf))

\* convert_to_summary; None and {} are both the empty dict here (both are
\* falsy in `if select_filters:`).  Exact selection first, then slicing.
convert_to_summary(data, dimensions, coords, scalars, select_filters, slice_filters) ==
    LET sf == OnDimensions(select_filters, dimensions)
        lf == OnDimensions(slice_filters, dimensions)
        s0 == DataArray(data, dimensions, coords, scalars)
        s1 == IF Keys(sf) # {} THEN Sel(s0, sf) ELSE s0
    IN  IF s1.err # "" \/ Keys(lf) = {} THEN s1
        ELSE IF UnpackError(lf) # "" THEN Failed(UnpackError(lf))
        ELSE Sel(s1, transform_filters_to_slices(lf))

\* The raw arrays: multipoles x s, and s alone; every cell holds a value of
\* its own.
SLabels == [j \in 1..NLabels |-> j]
Raw2 == DataArray([idx \in IndexSet(<<2, NLabels>>) |-> 10 * idx[1] + idx[2]],
                  <<"multipoles", "s">>,
                  [d \in {"multipoles", "s"} |-> IF d = "s" THEN SLabels ELSE <<0, 1>>],
                  <<>>)
Raw1 == DataArray([idx \in IndexSet(<<NLabels>>) |-> idx[1]],
                  <<"s">>, [d \in {"s"} |-> SLabels], <<>>)

\* The select_filters and slice_filters the callers pass.
SelectFilters ==
    [multipoles : {Absent, Scalar(0), List(<<0, 1>>), List(<<1, 0>>), List(<<1>>)},
     s : {Absent, Scalar(1), Scalar(NLabels), Scalar(NLabels + 1), List(<<1>>),
          List(<<2, 1>>), List(<<1, NLabels>>), List(<<1, NLabels + 1>>), List(SLabels)},
     quintiles : {Absent, Scalar(0), List(<<0, 1>>)}]

SliceFilters ==
    [multipoles : {Absent, Pair(0, 0), Pair(0, 1), Pair(1, 0)},
     s : {Absent, Scalar(1)} \cup {Pair(lo, hi) : lo, hi \in 0..(NLabels + 1)},
     quintiles : {Absent, Pair(0, 1), Scalar(0)}]

\* A caller holds a raw array and a pair of filter dicts, and has made no
\* call yet (calls = 0).
InitFilter ==
    /\ X \in {Raw1, Raw2}
    /\ req \in [select : SelectFilters, slice : SliceFilters, calls : {0}]
    /\ summary = X
    /\ PipeIdle /\ BundleIdle

\* summary = convert_to_summary(X.values, X.dims, X.coords, select, slice)
ConvertToSummary ==
    /\ req.calls = 0
    /\ req' = [req EXCEPT !.calls = 1]
    /\ summary' = convert_to_summary(X.data, X.dims, X.coords, X.scalars,
                                     req.select, req.slice)
    /\ UNCHANGED <<X, pipeVars, bundleVars>>

\* The caller filters the summary it got once more, with the same filters:
\* convert_to_summary(summary.values, summary.dims, summary.coords, ...).
FilterAgain ==
    /\ req.calls = 1 /\ summary.err = ""
    /\ req' = [req EXCEPT !.calls = 2]
    /\ summary' = convert_to_summary(summary.data, summary.dims, summary.coords,
                                     summary.scalars, req.select, req.slice)
    /\ UNCHANGED <<X, pipeVars, bundleVars>>

NextFilter == ConvertToSummary \/ FilterAgain

SpecFilter == InitFilter /\ [][NextFilter]_vars

\* ------------------------------------------------------------------ bundle
\* Longest list of summary names of a Bundle, and largest batch of inputs.
MaxSummaries == 2
MaxBatch == 2

\* A numpy array: its shape and its values in row-major order.
NdArray(shape, flat) == [shape |-> shape, flat |-> flat]
NoArray == NdArray(<<>>, <<>>)
Size(a) == Len(a.flat)

\* The keys of self.all_summaries.
AllSummaries == {"tpcf", "density_split_cross", "density_split_auto"}

\* The emulators behind the registered summaries.  Each gives, per input row,
\* an array of its own shape, which the slice filters shrink along s;
\* its values depend on the summary, the row's input and the cell.
SourceShape(name, filters) ==
    LET ns == IF filters = "low_s" THEN 1 ELSE 2
    IN  CASE name = "tpcf" -> <<2, ns>>
          [] name = "density_split_cross" -> <<3, ns>>
          [] OTHER -> <<ns>>

RECURSIVE Product(_)
Product(q) == IF q = <<>> THEN 1 ELSE q[1] * Product(Tail(q))

SourceId(name) ==
    CASE name = "tpcf" -> 1 [] name = "density_split_cross" -> 2 [] OTHER -> 3

SourceForward(name, inputs, filters) ==
    LET w == Product(SourceShape(name, filters))
    IN  NdArray(<<Len(inputs)>> \o SourceShape(name, filters),
                [i \in 1..(Len(inputs) * w) |->
                    1000 * SourceId(name) + 100 * inputs[((i - 1) \div w) + 1]
                        + ((i - 1) % w) + 1])

\* a.reshape((n, -1)): ValueError unless the size splits into n rows.
ReshapeFails(a, n) == n = 0 \/ Size(a) % n # 0
Reshape(a, n) == NdArray(<<n, Size(a) \div n>>, a.flat)

\* Row r of a two-dimensional array.
Row(a, r) == SubSeq(a.flat, (r - 1) * a.shape[2] + 1, r * a.shape[2])

RECURSIVE Concat(_)
Concat(qs) == IF qs = <<>> THEN <<>> ELSE qs[1] \o Concat(Tail(qs))

\* np.hstack with the arrays taken last to first.
HStackReversed(arrays) ==
    LET n == arrays[1].shape[1]
        m == Len(arrays)
        rows == [r \in 1..n |-> Concat([k \in 1..m |-> Row(arrays[m + 1 - k], r)])]
    IN  NdArray(<<n, Len(rows[1])>>, Concat(rows))

\* np.hstack of arrays with as many rows as the first, in the order given.
HStack(arrays) ==
    LET n == arrays[1].shape[1]
        rows == [r \in 1..n |-> Concat([k \in 1..Len(arrays) |-> Row(arrays[k], r)])]
    IN  NdArray(<<n, Len(rows[1])>>, Concat(rows))

\* The outcome of Bundle.forward: the exception raised or the array returned.
Threw(e) == [err |-> e, out |-> NoArray]
Gave(a) == [err |-> "", out |-> a]

\* A lookup that answers every name (an unknown one as density_split_auto).
LookupNeverFails(name) == FALSE

\* self.all_summaries[summary]: KeyError for a name that is no key.
LookupFails(name) == name \notin AllSummaries

\* The loop of Bundle.forward from name i on; output is the list built so far.
RECURSIVE ForwardLoop(_, _, _, _, _)
ForwardLoop(summaries, i, inputs, filters, output) ==
    IF i > Len(summaries)
    THEN (IF output = <<>> THEN Threw("ValueError") ELSE Gave(HStack(output)))
    ELSE IF LookupFails(summaries[i]) THEN Threw("KeyError")
    ELSE CHOOSE o \in
           { IF ReshapeFails(a, Len(inputs)) THEN Threw("ValueError")
             ELSE ForwardLoop(summaries, i + 1, inputs, filters,
                              Append(output, Reshape(a, Len(inputs)))) :
               a \in {SourceForward(summaries[i], inputs, filters)} } : TRUE

BundleForward(summaries, inputs, filters) == ForwardLoop(summaries, 1, inputs, filters, <<>>)

\* The names a caller may configure: the registered ones and one that is not.
SummaryNames == AllSummaries \cup {"voids"}

\* The select / slice filters of a forward call, as far as the emulators
\* tell them apart: none, or a slice keeping the lowest s bin.
FilterChoices == {"none", "low_s"}

NotCalled == [called |-> FALSE, inputs |-> <<>>, filters |-> "none",
              err |-> "", out |-> NoArray]

\* Bundle(summaries): the names are stored as given.
InitBundle ==
    /\ bundle \in SeqsUpTo(SummaryNames, MaxSummaries)
    /\ fwd = NotCalled
    /\ PipeIdle /\ FilterIdle

\* bundle.forward(inputs, select_filters, slice_filters)
Forward(inputs, filters) ==
    \E r \in {BundleForward(bundle, inputs, filters)} :
        /\ fwd' = [called |-> TRUE, inputs |-> inputs, filters |-> filters,
                   err |-> r.err, out |-> r.out]
        /\ UNCHANGED <<bundle, pipeVars, filterVars>>

NextBundle ==
    \E inputs \in SeqsUpTo({1, 2}, MaxBatch), filters \in FilterChoices :
        Forward(inputs, filters)

SpecBundle == InitBundle /\ [][NextBundle]_vars

\* ------------------------------------------------- properties: the pipeline
\* A cell holds a finite real: a rational or an untracked real.
FiniteCell(x) == x.k \in {"q", "irr"}
FiniteArr(a) == \A c \in Cells : FiniteCell(a.v[c])

\* Two cells the model can tell apart: both are tracked and they differ.
Differ(x, y) == x.k # "irr" /\ y.k # "irr" /\ x # y

\* Every fit-required member has both parameters set.
ParamsSet(ms) == \A i \in 1..Len(ms) : HasFit(ms[i]) => ms[i].p1.set /\ ms[i].p2.set

\* No fitted parameter is degenerate: all are rationals, max # min and
\* std # 0 in every cell.
NonDegenerate(ms) ==
    \A i \in 1..Len(ms) : HasFit(ms[i]) =>
        \A c \in Cells :
            /\ IsQ(ms[i].p1.v[c]) /\ IsQ(ms[i].p2.v[c])
            /\ ms[i].kind = "Normalize" => ms[i].p1.v[c] # ms[i].p2.v[c]
            /\ ms[i].kind = "Standarize" => ms[i].p2.v[c] # I(0)

\* inverse_transform(out) gives back `a` in every cell the model tracks.
RoundTrips(ms, a, out) ==
    \E inv \in {TransformsInverseTransform(ms, out)} :
        /\ inv.err = ""
        /\ \A c \in Cells : FiniteCell(inv.out.v[c]) /\ ~Differ(inv.out.v[c], a.v[c])

\* C1 (as claimed): after P.transform(A) on a fitted, non-degenerate pipeline
\* with A inside LogSqrt's domain (every cell of the result is a finite
\* real), P.inverse_transform of the result is A; pipelines of one member are
\* the member-alone case.
C1_RoundTrip ==
    (/\ call.op = "transform" /\ call.err = ""
     /\ ParamsSet(P) /\ NonDegenerate(P) /\ FiniteArr(call.out))
        => RoundTrips(P, call.arg0, call.out)

\* Two outcomes of a pipeline method the model can tell apart.
OutcomesDiffer(x, y) ==
    \/ x.err # y.err
    \/ x.err = "" /\ \E c \in Cells : Differ(x.out.v[c], y.out.v[c])

\* C2 (as claimed): the pipeline Q that from_file builds from the file that a
\* fitted pipeline stored gives, on every array, the results of the stored
\* pipeline, for transform and for inverse_transform.
C2_ReloadEquivalent ==
    (call.op = "from_file" /\ file.by = "store" /\ ParamsSet(file.snap)) =>
        /\ call.err = ""
        /\ \A a \in Arrays(layout) :
            /\ ~OutcomesDiffer(TransformsTransform(call.q, a),
                               TransformsTransform(file.snap, a))
            /\ ~OutcomesDiffer(TransformsInverseTransform(call.q, a),
                               TransformsInverseTransform(file.snap, a))

\* The kinds of the members of a pipeline, in order.
Kinds(ms) == [i \in 1..Len(ms) |-> ms[i].kind]

\* C3 (as claimed): the stored container has one entry per member, in
\* declaration order, and from_file rebuilds as many members of the same
\* kinds in the same order.
C3_OneEntryPerMember ==
    /\ file.by = "store" => [i \in 1..Len(file.d) |-> file.d[i].key] = Kinds(file.snap)
    /\ (call.op = "from_file" /\ file.by = "store") =>
           call.err = "" /\ Kinds(call.q) = Kinds(file.snap)

\* Some fit-required member of ms has a parameter that is still None.
Unfitted(ms) == ~ParamsSet(ms)

TransformKinds == {"Normalize", "Standarize", "LogSqrt"}

\* C5 (as claimed): from_file fails with UnknownTransformKindError on a
\* container holding an identifier that is no transform kind, and never
\* instantiates such an identifier into the pipeline.
C5_UnknownKindRejected ==
    (call.op = "from_file" /\ file.exists) =>
        /\ (\E i \in 1..Len(file.d) : file.d[i].key \notin TransformKinds)
               => call.err = "UnknownTransformKindError"
        /\ \A i \in 1..Len(call.q) : call.q[i].kind \in TransformKinds
\* What the claim says of fit_transform(a) on the members ms: member i is
\* given InputOf(ms, a, i), the original array for the first member and the
\* output of member i - 1 for any other; it is fitted on that array if it
\* has a fit method (FittedOf), and applied to it (OutputOf).
RECURSIVE InputOf(_, _, _), FittedOf(_, _, _), OutputOf(_, _, _)
InputOf(ms, a, i) == IF i = 1 THEN a ELSE OutputOf(ms, a, i - 1)
FittedOf(ms, a, i) ==
    IF HasFit(ms[i]) THEN MemberFit(ms[i], InputOf(ms, a, i)) ELSE ms[i]
OutputOf(ms, a, i) == MemberTransform(FittedOf(ms, a, i), InputOf(ms, a, i)).out

\* C13: a fit_transform call that returns leaves every member with a fit
\* method fitted on the output of the member before it (the first on the
\* array passed), leaves every other member as it was, and returns the
\* output of the last member, each member having been applied to the output
\* of the one before it.
C13_FitTransformInOrder ==
    [][(call'.op = "fit_transform" /\ call'.err = "") =>
          /\ Len(P') = Len(P)
          /\ \A i \in 1..Len(P) :
                /\ P'[i] = FittedOf(P, call'.arg0, i)
                /\ ~HasFit(P[i]) => P'[i] = P[i]
          /\ call'.out = IF P = <<>> THEN call'.arg0
                         ELSE OutputOf(P, call'.arg0, Len(P))]_vars

\* C13 witness: fit_transform returned on a pipeline of a LogSqrt member
\* followed by a Standarize member, which now holds the mean of the
\* LogSqrt output and not that of the array passed.
C13_Witness ==
    /\ call.op = "fit_transform" /\ call.err = "" /\ layout = "multipoles"
    /\ Len(P) = 2 /\ P[1].kind = "LogSqrt" /\ P[2].kind = "Standarize"
    /\ P[2].p1.set
    /\ P[2].p1 # StandarizeFit(P[2], call.arg0).p1

\* What the claim says of inverse_transform(a) on the members ms: the last
\* member inverts the array passed, and member i the output of member i + 1.
RECURSIVE InvertedFrom(_, _, _)
InvertedFrom(ms, a, i) ==
    MemberInverse(ms[i], IF i = Len(ms) THEN a ELSE InvertedFrom(ms, a, i + 1)).out

\* The members applied first to last instead.
RECURSIVE InvertedUpTo(_, _, _)
InvertedUpTo(ms, a, i) ==
    MemberInverse(ms[i], IF i = 1 THEN a ELSE InvertedUpTo(ms, a, i - 1)).out

\* C14: an inverse_transform call that returns gives the array passed put
\* through every member's inverse_transform once, the last member first
\* and the first member last, each on the output of the one before.
C14_InverseInReverseOrder ==
    [][(call'.op = "inverse_transform" /\ call'.err = "") =>
          /\ P' = P
          /\ call'.out = IF P = <<>> THEN call'.arg0
                         ELSE InvertedFrom(P, call'.arg0, 1)]_vars

\* C14 witness: inverse_transform returned on a pipeline of two members of
\* different kinds, for which the opposite order gives another array.
C14_Witness ==
    /\ call.op = "inverse_transform" /\ call.err = "" /\ Len(P) = 2
    /\ P[1].kind = "LogSqrt" /\ P[2].kind = "Normalize"
    /\ call.out = InvertedFrom(P, call.arg0, 1)
    /\ \E c \in Cells : Differ(call.out.v[c], InvertedUpTo(P, call.arg0, 2).v[c])

\* C15 (as claimed): a fit_transform, transform or inverse_transform call
\* in which a member raises leaves the members' parameters, the parameter
\* file and the caller's array as they were before the call.
C15_NoPartialState ==
    [][(call'.op \in {"fit_transform", "transform", "inverse_transform"}
            /\ call'.err # "") =>
          /\ P' = P
          /\ file' = file
          /\ call'.arg = call'.arg0]_vars

\* C16: a transform, inverse_transform or store_transform_params call
\* leaves every member as it was: its parameters, its dimensions and its
\* constants.  Only fit_transform changes a member.
C16_ParametersReadOnly ==
    [][(call'.op \in {"transform", "inverse_transform", "store"}) => P' = P]_vars

\* C16 witness: transform returned on a pipeline whose Normalize member holds
\* the parameters of an earlier fit on another array, and still holds them.
C16_Witness ==
    /\ call.op = "transform" /\ call.err = "" /\ Len(P) >= 1
    /\ P[1].kind = "Normalize" /\ ~P[1].dims.none /\ P[1].p1.set
    /\ P[1].p1 # NormalizeFit(P[1], call.arg0).p1

\* C17: a transform call, returning or raising, leaves the caller's array
\* with the values it was passed with, whatever the members are; and the
\* same call made again on that array ends the same way.
C17_TransformKeepsInput ==
    [][(call'.op = "transform") =>
          /\ call'.arg = call'.arg0
          /\ \E again \in {TransformsTransform(P', call'.arg)} :
                again.err = call'.err /\ again.out = call'.out]_vars

\* C17 witness: transform returned on a pipeline with a LogSqrt member, with
\* a result that differs from the array passed, which is unchanged.
C17_Witness ==
    /\ call.op = "transform" /\ call.err = "" /\ Len(P) >= 1
    /\ \E i \in 1..Len(P) : P[i].kind = "LogSqrt"
    /\ call.out # call.arg0 /\ call.arg = call.arg0

\* --------------------------------------------- properties: the filter engine
\* The dimension names of the raw array.
XDims == Range(X.dims)
Without(filters, n) == [filters EXCEPT ![n] = Absent]
Convert(sel, slc) == convert_to_summary(X.data, X.dims, X.coords, X.scalars, sel, slc)

\* C6: an entry of select_filters or of slice_filters whose name is no
\* dimension of the array changes nothing: the call gives what it gives
\* without the entry (the same array, or the same exception), whatever the
\* entry's value.
C6_AbsentDimensionIgnored ==
    req.calls = 1 =>
        \A n \in Names \ XDims :
            /\ summary = Convert(Without(req.select, n), req.slice)
            /\ summary = Convert(req.select, Without(req.slice, n))

\* C6 witness: a call on the two-dimensional array with a select entry and a
\* malformed slice entry for the absent "quintiles", and entries for both of
\* its own dimensions, returned a filtered array.
C6_Witness ==
    /\ req.calls = 1 /\ X = Raw2 /\ summary.err = ""
    /\ req.select["quintiles"].t = "list" /\ req.slice["quintiles"].t = "scalar"
    /\ req.select["multipoles"] = Scalar(0) /\ req.slice["s"] = Pair(2, NLabels)
    /\ summary.dims = <<"s">>

\* C7 (as claimed): filtering the result of a call again with the same
\* filters gives the same array.
C7_Idempotent ==
    [][(req.calls = 1 /\ req'.calls = 2) => summary' = summary]_vars

\* The dimensions of the raw array named by both filter dicts.
SharedDims == Keys(req.select) \cap Keys(req.slice) \cap XDims

\* C7 (amended): it does when no dimension of the array is named by both
\* the select and the slice filters.
C7_IdempotentOnDisjointDims ==
    [][(req.calls = 1 /\ req'.calls = 2 /\ SharedDims = {}) => summary' = summary]_vars

\* C7 witness: a result of select and slice filters on different dimensions
\* (one of them dropped by a scalar selection) was filtered again.
C7_Witness ==
    /\ req.calls = 2 /\ X = Raw2 /\ summary.err = "" /\ SharedDims = {}
    /\ req.select["multipoles"] = Scalar(0) /\ req.slice["s"] = Pair(2, NLabels)
    /\ summary.dims = <<"s">> /\ summary.coords["s"] = SubSeq(SLabels, 2, NLabels)

\* Range slicing first, exact selection second (the order convert_to_summary
\* does not use).
SliceThenSelect(sel, slc) ==
    LET sf == [n \in Names |-> IF n \in XDims THEN sel[n] ELSE Absent]
        lf == [n \in Names |-> IF n \in XDims THEN slc[n] ELSE Absent]
        s0 == DataArray(X.data, X.dims, X.coords, X.scalars)
        s1 == IF Keys(lf) = {} THEN s0
              ELSE IF UnpackError(lf) # "" THEN Failed(UnpackError(lf))
              ELSE Sel(s0, transform_filters_to_slices(lf))
    IN  IF s1.err # "" \/ Keys(sf) = {} THEN s1 ELSE Sel(s1, sf)

\* Both orders raise, or both give the same array.
SameOutcome(a, b) == (a.err # "" /\ b.err # "") \/ a = b

\* C8 (as claimed): selecting then slicing gives what slicing then selecting
\* gives, also when both filters name the same dimension.
C8_Commute ==
    req.calls = 1 => SameOutcome(summary, SliceThenSelect(req.select, req.slice))

\* C8 (amended): it does when no dimension of the array is named by both.
C8_CommuteOnDisjointDims ==
    (req.calls = 1 /\ SharedDims = {}) =>
        SameOutcome(summary, SliceThenSelect(req.select, req.slice))

\* C8 witness: a call with a list selection on one dimension and a slice on
\* the other returned the array that both orders give.
C8_Witness ==
    /\ req.calls = 1 /\ X = Raw2 /\ summary.err = "" /\ SharedDims = {}
    /\ req.select["multipoles"] = List(<<1, 0>>) /\ req.slice["s"] = Pair(1, 2)
    /\ summary.coords["s"] = <<1, 2>> /\ summary.coords["multipoles"] = <<1, 0>>
    /\ summary = SliceThenSelect(req.select, req.slice)
\* dims2 lists some of dims, in the order of dims.
InOrderOf(dims2, dims) ==
    /\ Range(dims2) \subseteq Range(dims)
    /\ \A i, j \in 1..Len(dims2) : i < j => PosIn(dims, dims2[i]) < PosIn(dims, dims2[j])

\* M is a run of consecutive items of L (possibly empty).
RunOf(M, L) == \E i \in 1..(Len(L) + 1), j \in 0..Len(L) : M = SubSeq(L, i, j)

\* The labels of dimension d after the select filters alone.
Selected(d) == IF req.select[d].t = "list" THEN req.select[d].l ELSE X.coords[d]

\* C11: in every array convert_to_summary returns, the dimensions left are
\* those of the raw array in their declared order; a dimension selected by a
\* scalar is gone (its label stays as a scalar coordinate) and every other
\* one is kept; a dimension selected by a list has the listed labels in the
\* order given; a slice leaves a run of consecutive labels of what the
\* selection left, and nothing else changes an axis.
C11_DimensionOrderKept ==
    (req.calls = 1 /\ summary.err = "") =>
        /\ InOrderOf(summary.dims, X.dims)
        /\ \A d \in XDims :
              IF req.select[d].t = "scalar"
              THEN d \notin Range(summary.dims) /\ summary.scalars[d] = req.select[d].a
              ELSE /\ d \in Range(summary.dims)
                   /\ IF req.slice[d].t = "absent"
                      THEN summary.coords[d] = Selected(d)
                      ELSE RunOf(summary.coords[d], Selected(d))

\* C11 witness: a list selection in reversed label order on the first
\* dimension and a slice on the second returned both axes in declared order.
C11_Witness ==
    /\ req.calls = 1 /\ X = Raw2 /\ summary.err = ""
    /\ req.select["multipoles"] = List(<<1, 0>>) /\ req.slice["s"] = Pair(2, NLabels)
    /\ summary.dims = <<"multipoles", "s">>
    /\ summary.coords["multipoles"] = <<1, 0>>
    /\ Len(summary.coords["s"]) = NLabels - 1

\* The labels of L within lo..hi, in the order of L.
Within(L, lo, hi) == SelectSeq(L, LAMBDA l : lo <= l /\ l <= hi)

\* The dimensions of the raw array that carry a (min, max) slice filter.
Sliced == {d \in XDims : req.slice[d].t = "pair"}

AloneRow(k, r) ==
    LET a == SourceForward(bundle[k], fwd.inputs, fwd.filters)
        w == Size(a) \div Len(fwd.inputs)
    IN  SubSeq(a.flat, (r - 1) * w + 1, r * w)

\* The per-row width of summary k's output.
Width(k) == Product(SourceShape(bundle[k], fwd.filters))

RECURSIVE WidthBefore(_)
WidthBefore(k) == IF k = 1 THEN 0 ELSE WidthBefore(k - 1) + Width(k - 1)

\* C9: the array a forward call returns has one row per input row, as wide
\* as the summaries' per-row widths together, and in every row the k-th
\* block of columns is what the k-th configured summary gives alone for that
\* row; and a call with a batch that is not empty on a bundle of one or more
\* registered names does return.
C9_ConcatenatedInOrder ==
    /\ (fwd.called /\ fwd.err = "") =>
        /\ fwd.out.shape = <<Len(fwd.inputs), WidthBefore(Len(bundle) + 1)>>
        /\ \A r \in 1..Len(fwd.inputs), k \in 1..Len(bundle) :
               SubSeq(Row(fwd.out, r), WidthBefore(k) + 1, WidthBefore(k) + Width(k))
                   = AloneRow(k, r)
    /\ (fwd.called /\ bundle # <<>> /\ fwd.inputs # <<>>
            /\ \A k \in 1..Len(bundle) : bundle[k] \in AllSummaries) => fwd.err = ""

\* C9 witness: a bundle of two summaries of different widths returned the
\* rows for a batch of two.
C9_Witness ==
    /\ fwd.called /\ fwd.err = "" /\ Len(fwd.inputs) = 2
    /\ bundle = <<"tpcf", "density_split_cross">>
    /\ fwd.out.shape = <<2, 10>>

\* Some configured name is no key of the registry.
HasUnknown == \E k \in 1..Len(bundle) : bundle[k] \notin AllSummaries

\* C10 (as claimed): a bundle configured with an unknown name fails with
\* UnknownSummaryError, at construction or at its first forward call.
C10_UnknownSummaryError ==
    (HasUnknown /\ fwd.called) => fwd.err = "UnknownSummaryError"

\* C10 (amended): construction succeeds; every forward call raises and
\* returns no output, and what it raises on a batch that is not empty is the
\* KeyError of the registry lookup.
C10_UnknownNameRaises ==
    (HasUnknown /\ fwd.called) =>
        /\ fwd.err # "" /\ fwd.out = NoArray
        /\ Len(fwd.inputs) > 0 => fwd.err = "KeyError"

\* C10 witness: forward on a bundle whose second name is unknown raised
\* KeyError after the first summary was computed.
C10_Witness ==
    /\ fwd.called /\ bundle = <<"tpcf", "voids">> /\ Len(fwd.inputs) = 2
    /\ fwd.err = "KeyError"
====
